---- MODULE Spec2Model ----
(***************************************************************************)
(* Audio monitoring page of camera-mirror: src/routes/camera/+page.svelte. *)
(*                                                                         *)
(* The page script is single threaded.  Every handler (a button, the       *)
(* slider, the microphone select, a settled promise, a display-refresh     *)
(* callback, onMount, onDestroy) runs to its next await and is one action. *)
(* A handler is written as the composition of the statements of the code,  *)
(* each statement an operator from a state record to a state record, so    *)
(* that the order of the statements is the order of the code.              *)
(*                                                                         *)
(* The variables stream and audioElement hold the state of the objects     *)
(* they refer to.  When requestPermissions overwrites them, the objects    *)
(* they referred to stay alive in the browser although the script can no   *)
(* longer reach them: a MediaStream whose tracks were not stopped keeps    *)
(* capturing, an Audio element that was not paused keeps playing.  These   *)
(* are kept in the bag orphans.  AudioContext objects are numbered.        *)
(***************************************************************************)
EXTENDS Integers, Sequences, FiniteSets, Bags, TLC

\* Bounds of the model.
MaxOrphans == 1       \* unreachable streams / elements alive together
MaxPending == 2       \* getUserMedia calls pending together
MaxMics == 2          \* audio inputs enumerateDevices reports when it finds any

\* Program constants.
MsPerSecond == 1000   \* audioDelay / 1000
ByteMax == 255        \* average / 255

Delays == {0, 300}                    \* slider values used (min 0, max 1000, step 10)
Frames == {<<0, 0>>, <<255, 0>>}      \* frequency data a live analyser may deliver
ZeroFrame == <<0, 0>>
ErrorNames == {"NotAllowedError", "NotFoundError", "NotReadableError", "OtherError"}

\* AudioContext objects are numbered by the least number nothing refers to:
\* audioContext, analyser, audioElement and every orphan may each hold one, and
\* a handler constructs the next while the variable still holds the last.
CtxIds == 1..(MaxOrphans + 4)

NullSrc == <<"null", 0>>
RawSrc == <<"raw", 0>>                \* the stream the element was created for
DestSrc(c) == <<"dest", c>>           \* destination.stream of the graph in context c

NoElem == [made |-> FALSE, src |-> NullSrc, paused |-> TRUE, pending |-> {}]
NoCtx == [state |-> "none", delayTime |-> <<0, 1>>, source |-> "none", conns |-> {}]
ClosedCtx == [NoCtx EXCEPT !.state = "closed"]

VARIABLES
    stream,          \* let stream: "none" (unassigned), or the state of its tracks:
                     \* "live", "stopped"
    audioElement,    \* let audioElement: made, srcObject, paused, pending play()
    orphans,         \* bag of [live, elem]: overwritten streams with their elements
    audioContext,    \* let audioContext (0 while undefined)
    ctxs,            \* per AudioContext: state and the graph built in it; source is
                     \* the stream of the graph: "cur" (the one stream refers to),
                     \* "leaked" (an orphan with live tracks), "dead"
    analyser,        \* let analyser: its context and the stream it is attached to
    hasPermission, isStreaming, errorMessage, micLevel,
    availableMics,   \* availableMics.length
    audioEnabled, audioDelay,
    rafScheduled,    \* a requestAnimationFrame(draw) callback is outstanding
    animationFrame,  \* let animationFrame was assigned a handle
    mountPc,         \* position of the onMount callback
    pendMount,       \* getUserMedia of onMount's requestPermissions is pending
    pendPlain,       \* number of pending getUserMedia calls of the enable button
    pendSwitch,      \* number of pending getUserMedia calls of switchMicrophone
    destroyed,       \* onDestroy has run
    hasAudioContext  \* typeof AudioContext !== 'undefined'

vars == <<stream, audioElement, orphans, audioContext, ctxs, analyser,
          hasPermission, isStreaming, errorMessage, micLevel, availableMics,
          audioEnabled, audioDelay, rafScheduled, animationFrame, mountPc,
          pendMount, pendPlain, pendSwitch, destroyed, hasAudioContext>>

\* The state at the start of a handler.  log collects the browser calls the
\* handler makes, in order; frame is the frequency data its draw reads (the
\* dataArray, not retained); aborted collects the play() promises the handler's
\* pause() calls reject (their catch callbacks run once the handler returns);
\* thrown is set while an exception travels to the enclosing catch.
\* videoElement and canvasElement are bound while their markup is rendered.
Cur ==
    [stream |-> stream, audioElement |-> audioElement, orphans |-> orphans,
     audioContext |-> audioContext, ctxs |-> ctxs,
     analyser |-> analyser, hasPermission |-> hasPermission,
     isStreaming |-> isStreaming, errorMessage |-> errorMessage,
     micLevel |-> micLevel, availableMics |-> availableMics,
     audioEnabled |-> audioEnabled, audioDelay |-> audioDelay,
     rafScheduled |-> rafScheduled, animationFrame |-> animationFrame,
     mountPc |-> mountPc, pendMount |-> pendMount,
     pendPlain |-> pendPlain, pendSwitch |-> pendSwitch, destroyed |-> destroyed,
     hasAudioContext |-> hasAudioContext,
     videoBound |-> (hasPermission /\ ~destroyed),
     canvasBound |-> ~destroyed,
     aborted |-> {}, thrown |-> FALSE, frame |-> <<>>, log |-> <<>>]

Log(S, op, id) == [S EXCEPT !.log = Append(@, <<op, id>>)]

----------------------------------------------------------------------------
\* HTMLMediaElement, MediaStream and AudioContext calls.

\* audioElement.pause(): pauses; pending play() promises are rejected.
Pause(S) ==
    Log([S EXCEPT !.audioElement.paused = TRUE,
                  !.audioElement.pending = {},
                  !.aborted = @ \cup S.audioElement.pending],
        "audio.pause", 0)

\* audioElement.currentTime = 0
ResetTime(S) == Log(S, "audio.reset", 0)

\* audioElement.srcObject = src
SetSrc(S, src) == Log([S EXCEPT !.audioElement.src = src], "audio.src", src[2])

\* audioElement.play().then(..).catch(..): kind names the callbacks attached.
Play(S, kind) ==
    Log([S EXCEPT !.audioElement.paused = FALSE,
                  !.audioElement.pending = @ \cup {kind}],
        "audio.play", 0)

\* stream.getTracks().forEach((track) => track.stop())
StopTracks(S) == Log([S EXCEPT !.stream = "stopped"], "tracks.stop", 0)

\* new AudioContext()
Referenced(S, c) ==
    \/ S.audioContext = c
    \/ S.analyser.ctx = c
    \/ S.audioElement.src = DestSrc(c)
    \/ \E o \in BagToSet(S.orphans) : o.elem.src = DestSrc(c)

FreeContext(S, c) == S.ctxs[c].state # "running" /\ ~Referenced(S, c)

NewContext(S) ==
    LET c == CHOOSE k \in CtxIds :
                 FreeContext(S, k) /\ \A j \in CtxIds : j < k => ~FreeContext(S, j)
    IN
    Log([S EXCEPT !.audioContext = c,
                  !.ctxs[c] = [NoCtx EXCEPT !.state = "running"]],
        "ctx.new", c)

\* audioContext.close(): the context processes nothing any more.
CloseContext(S, c) ==
    Log([S EXCEPT !.ctxs[c] = ClosedCtx],
        IF S.ctxs[c].state = "closed" THEN "ctx.reclose" ELSE "ctx.close", c)

----------------------------------------------------------------------------
\* function stopStream()
StopVideo(S) ==
    IF S.videoBound THEN Log(S, "video.stop", 0) ELSE S

StopAudio(S) ==
    IF S.audioElement.made THEN SetSrc(ResetTime(Pause(S)), NullSrc) ELSE S

StopStreamTracks(S) ==
    IF S.stream # "none" THEN StopTracks(S) ELSE S

\* A variant of the statement below that forgets the context without closing it.
ReleaseContextWithoutClose(S) == [S EXCEPT !.audioContext = 0]

\* A variant of the statement below that keeps the reference to the context.
ReleaseContextKeepingReference(S) ==
    IF S.audioContext # 0 THEN CloseContext(S, S.audioContext) ELSE S

ReleaseContext(S) ==
    IF S.audioContext # 0
    THEN [CloseContext(S, S.audioContext) EXCEPT !.audioContext = 0]
    ELSE S

stopStream(S) ==
    [ReleaseContext(StopStreamTracks(StopAudio(StopVideo(S))))
        EXCEPT !.isStreaming = FALSE, !.audioEnabled = FALSE, !.micLevel = <<0, 1>>]

----------------------------------------------------------------------------
\* function updateAudioDelay(); fault is the line of the try block at which the
\* browser throws (0: nothing throws).
GraphFaults == {0, 161, 168, 175}

Throw(S) == [S EXCEPT !.thrown = TRUE]

\* if (!audioContext) { audioContext = new AudioContext(); }
EnsureContext(S, fault) ==
    IF S.audioContext # 0 THEN S
    ELSE IF fault = 161 THEN Throw(S)
    ELSE NewContext(S)

\* A variant of the statement below that closes nothing.
CloseExistingOmitted(S) == S

\* if (audioContext.state !== 'closed') { audioContext.close(); }
CloseExisting(S) ==
    IF S.thrown THEN S
    ELSE IF S.ctxs[S.audioContext].state # "closed"
         THEN CloseContext(S, S.audioContext)
         ELSE S

\* audioContext = new AudioContext();
Reconstruct(S, fault) ==
    IF S.thrown THEN S
    ELSE IF fault = 168 THEN Throw(S)
    ELSE NewContext(S)

\* createDelay, delayTime.value = audioDelay / 1000, createMediaStreamSource,
\* createMediaStreamDestination, the three connect calls.
GraphConnections ==
    {<<"source", "delay">>, <<"delay", "destination">>, <<"source", "destination">>}

\* A variant of the statements below without source.connect(destination).
BuildGraphWithoutDirectPath(S, fault) ==
    IF S.thrown THEN S
    ELSE LET c == S.audioContext
             D == [S EXCEPT !.ctxs[c].delayTime = <<S.audioDelay, MsPerSecond>>]
         IN IF fault = 175 THEN Throw(D)
            ELSE [D EXCEPT !.ctxs[c].source = "cur",
                           !.ctxs[c].conns = {<<"source", "delay">>,
                                              <<"delay", "destination">>}]

BuildGraph(S, fault) ==
    IF S.thrown THEN S
    ELSE LET c == S.audioContext
             D == [S EXCEPT !.ctxs[c].delayTime = <<S.audioDelay, MsPerSecond>>]
         IN IF fault = 175 THEN Throw(D)
            ELSE [D EXCEPT !.ctxs[c].source = "cur",
                           !.ctxs[c].conns = GraphConnections]

\* A variant of the statements below whose catch attaches nothing.
AttachGraphWithoutFallback(S) ==
    IF S.thrown
    THEN [S EXCEPT !.thrown = FALSE]
    ELSE SetSrc(S, DestSrc(S.audioContext))

\* audioElement.srcObject = destination.stream; catch: audioElement.srcObject = stream
AttachGraph(S) ==
    IF S.thrown
    THEN SetSrc([S EXCEPT !.thrown = FALSE], RawSrc)
    ELSE SetSrc(S, DestSrc(S.audioContext))

DelayedSource(S, fault) ==
    AttachGraph(BuildGraph(Reconstruct(CloseExisting(EnsureContext(S, fault)), fault), fault))

DirectSource(S) == SetSrc(S, RawSrc)

\* if (audioEnabled) { audioElement.play().catch(..) }
ResumeIfEnabled(S) ==
    IF S.audioEnabled THEN Play(S, "resume") ELSE S

updateAudioDelay(S, fault) ==
    IF ~S.audioElement.made \/ S.stream = "none" THEN S
    ELSE LET P == ResetTime(Pause(S))
         IN ResumeIfEnabled(
                IF P.audioDelay > 0 /\ P.hasAudioContext
                THEN DelayedSource(P, fault)
                ELSE DirectSource(P))

----------------------------------------------------------------------------
\* function toggleAudio()
DisableAudio(S) ==
    [SetSrc(ResetTime(Pause(S)), NullSrc) EXCEPT !.audioEnabled = FALSE]

EnableAudio(S, fault) == Play(updateAudioDelay(S, fault), "enable")

toggleAudio(S, fault) ==
    IF ~S.audioElement.made \/ S.stream = "none" THEN S
    ELSE IF S.audioEnabled THEN DisableAudio(S)
    ELSE EnableAudio(S, fault)

----------------------------------------------------------------------------
\* function setupAudioPlayback(mediaStream): audioElement = new Audio(); the
\* element audioElement referred to is unreachable from here on.
Abandon(S) ==
    [S EXCEPT !.orphans = @ (+) SetToBag({[live |-> S.stream = "live",
                                           elem |-> S.audioElement]}),
              !.audioElement = NoElem]

setupAudioPlayback(S) ==
    LET N == Log([S EXCEPT !.audioElement = [NoElem EXCEPT !.made = TRUE]],
                 "audio.new", 0)
    IN Play(SetSrc(N, RawSrc), "enable")

\* function setupAudioAnalyser(mediaStream); fault 209: new AudioContext() throws.
AnalyserFaults == {0, 209}

setupAudioAnalyser(S, fault) ==
    IF ~S.hasAudioContext THEN S
    ELSE IF S.audioContext = 0 /\ fault = 209 THEN Throw(S)
    ELSE LET A == IF S.audioContext = 0 THEN NewContext(S) ELSE S
         IN Log([A EXCEPT !.analyser = [ctx |-> A.audioContext, src |-> "cur"]],
                "analyser.attach", A.audioContext)

----------------------------------------------------------------------------
\* function getErrorMessage(error)
getErrorMessage(name) ==
    IF name = "NotAllowedError"
    THEN "Camera and microphone access was denied. Please allow access in your browser settings."
    ELSE IF name = "NotFoundError"
    THEN "No camera or microphone found. Please connect a device and try again."
    ELSE IF name = "NotReadableError"
    THEN "Camera or microphone is already in use by another application."
    ELSE "Error accessing camera or microphone. Please check your device permissions."

\* requestPermissions() up to its await: the getUserMedia call is issued.
IssueAcquisition(S, from) ==
    Log(IF from = "mount" THEN [S EXCEPT !.pendMount = TRUE]
        ELSE IF from = "switch" THEN [S EXCEPT !.pendSwitch = @ + 1]
        ELSE [S EXCEPT !.pendPlain = @ + 1],
        "getUserMedia", 0)

\* catch (error) of requestPermissions
\* A variant of the catch below without hasPermission = false.
AcquisitionFailedKeepingPermission(S, name) ==
    [S EXCEPT !.errorMessage = getErrorMessage(name), !.thrown = FALSE]

AcquisitionFailed(S, name) ==
    [S EXCEPT !.errorMessage = getErrorMessage(name), !.hasPermission = FALSE,
              !.thrown = FALSE]

\* stream = mediaStream: the stream the variable referred to is unreachable from
\* here on; what was attached to it stays attached to it.
Retag(S, src) ==
    IF src = "cur" THEN (IF S.stream = "live" THEN "leaked" ELSE "dead") ELSE src

AssignStream(S) ==
    [S EXCEPT !.analyser.src = Retag(S, @),
              !.ctxs = [c \in CtxIds |-> [@[c] EXCEPT !.source = Retag(S, @)]],
              !.stream = "live"]

\* requestPermissions() after its await, getUserMedia fulfilled with a new
\* stream; an exception of setupAudioAnalyser reaches the catch.
AcquisitionGranted(S, fault) ==
    LET G == [AssignStream(Abandon(S)) EXCEPT !.hasPermission = TRUE,
                                              !.errorMessage = ""]
        V == IF G.videoBound THEN Log(G, "video.src", 0) ELSE G
        A == setupAudioAnalyser(setupAudioPlayback(V), fault)
    IN IF A.thrown THEN AcquisitionFailed(A, "NotSupportedError") ELSE A

----------------------------------------------------------------------------
\* startAudioLevelVisualization: one run of draw; data is what the analyser
\* delivers when its context runs and its stream is live.
Sum(f) == f[1] + f[2]

Ratio(n, d) == IF n = 0 THEN <<0, 1>> ELSE <<n, d>>

StreamLive(S, src) == (src = "cur" /\ S.stream = "live") \/ src = "leaked"

AnalyserLive(S) ==
    /\ S.analyser.ctx # 0
    /\ S.ctxs[S.analyser.ctx].state = "running"
    /\ StreamLive(S, S.analyser.src)

\* A variant of draw without the line "if (!analyser) return".
drawWithoutAnalyserCheck(S, data) ==
    IF ~S.canvasBound THEN S
    ELSE IF S.analyser.ctx = 0 THEN Throw(S)
    ELSE LET d == IF AnalyserLive(S) THEN data ELSE ZeroFrame
         IN Log([S EXCEPT !.frame = d,
                          !.micLevel = Ratio(Sum(d), Len(d) * ByteMax),
                          !.rafScheduled = TRUE,
                          !.animationFrame = TRUE],
                "requestAnimationFrame", 0)

draw(S, data) ==
    IF ~S.canvasBound THEN S
    ELSE IF S.analyser.ctx = 0 THEN S
    ELSE LET d == IF AnalyserLive(S) THEN data ELSE ZeroFrame
         IN Log([S EXCEPT !.frame = d,
                          !.micLevel = Ratio(Sum(d), Len(d) * ByteMax),
                          !.rafScheduled = TRUE,
                          !.animationFrame = TRUE],
                "requestAnimationFrame", 0)

\* function startStream()
startStream(S) ==
    IF S.stream # "none" /\ S.videoBound
    THEN [Log(S, "video.play", 0) EXCEPT !.isStreaming = TRUE]
    ELSE S

\* A variant of switchMicrophone that asks for the new stream first.
switchMicrophoneAcquiringFirst(S) ==
    IF S.stream # "none" THEN stopStream(IssueAcquisition(S, "switch")) ELSE S

\* function switchMicrophone()
switchMicrophone(S) ==
    IF S.stream # "none" THEN IssueAcquisition(stopStream(S), "switch") ELSE S

\* onDestroy callback
CancelFrame(S) ==
    IF S.animationFrame
    THEN Log([S EXCEPT !.rafScheduled = FALSE], "cancelAnimationFrame", 0)
    ELSE S

onDestroy(S) == [CancelFrame(stopStream(S)) EXCEPT !.destroyed = TRUE]

----------------------------------------------------------------------------
\* The end of a handler: the catch callbacks of the play() promises it aborted
\* run (setupAudioPlayback and toggleAudio: audioEnabled = false; updateAudioDelay:
\* a console message).
\*
\* What can no longer be reached nor heard is forgotten: an orphan element with
\* no play() pending that is paused or whose source has ended for good (its
\* stream stopped, its context closed), an orphan stream whose tracks are
\* stopped, a closed AudioContext nothing refers to.
Silent(S, o) ==
    \/ o.elem.src = NullSrc
    \/ ~o.live
    \/ o.elem.src[1] = "dest" /\ S.ctxs[o.elem.src[2]].state # "running"

Forget(S, o) ==
    IF o.elem.pending = {} /\ (o.elem.paused \/ Silent(S, o))
    THEN [o EXCEPT !.elem = NoElem]
    ELSE o

Gone(o) == ~o.live /\ o.elem = NoElem

KeepOrphans(S) ==
    LET B == BagOfAll(LAMBDA o : Forget(S, o), S.orphans)
    IN [o \in {x \in BagToSet(B) : ~Gone(x)} |-> B[o]]

\* The AudioContext objects still in use are numbered 1, 2, .. in the order
\* audioContext, analyser, audioElement.srcObject, the orphans, the others.
SrcCtx(el) == IF el.src[1] = "dest" THEN el.src[2] ELSE 0

Ascending(set) ==
    [k \in 1..Cardinality(set) |->
        CHOOSE x \in set : Cardinality({y \in set : y < x}) = k - 1]

FirstOccurrences(seq) ==
    LET idx == {i \in 1..Len(seq) :
                   seq[i] # 0 /\ \A j \in 1..(i - 1) : seq[j] # seq[i]}
        pos == Ascending(idx)
    IN [k \in 1..Cardinality(idx) |-> seq[pos[k]]]

InUse(S) ==
    FirstOccurrences(
        <<S.audioContext, S.analyser.ctx, SrcCtx(S.audioElement)>>
        \o Ascending({SrcCtx(o.elem) : o \in BagToSet(S.orphans)})
        \o Ascending({c \in CtxIds : ~FreeContext(S, c)}))

Renumber(S) ==
    LET use == InUse(S)
        new(c) == IF c = 0 THEN 0 ELSE CHOOSE k \in 1..Len(use) : use[k] = c
        elem(el) == IF el.src[1] = "dest"
                    THEN [el EXCEPT !.src = DestSrc(new(el.src[2]))] ELSE el
    IN [S EXCEPT !.audioContext = new(@),
                 !.analyser.ctx = new(@),
                 !.audioElement = elem(@),
                 !.orphans = BagOfAll(LAMBDA o : [o EXCEPT !.elem = elem(@)], @),
                 !.ctxs = [k \in CtxIds |-> IF k <= Len(use) THEN S.ctxs[use[k]]
                                                             ELSE NoCtx]]

AfterCatches(S) ==
    IF "enable" \in S.aborted THEN [S EXCEPT !.audioEnabled = FALSE] ELSE S

Settle(S) ==
    LET A == AfterCatches(S)
    IN Renumber([A EXCEPT !.orphans = KeepOrphans(A)])

Commit(S0) ==
    \E S \in {Settle(S0)} :
    /\ BagCardinality(S.orphans) <= MaxOrphans
    /\ stream' = S.stream                 /\ audioElement' = S.audioElement
    /\ orphans' = S.orphans               /\ audioContext' = S.audioContext
    /\ ctxs' = S.ctxs                     /\ analyser' = S.analyser
    /\ hasPermission' = S.hasPermission   /\ isStreaming' = S.isStreaming
    /\ errorMessage' = S.errorMessage     /\ micLevel' = S.micLevel
    /\ availableMics' = S.availableMics
    /\ audioEnabled' = S.audioEnabled     /\ audioDelay' = S.audioDelay
    /\ rafScheduled' = S.rafScheduled     /\ animationFrame' = S.animationFrame
    /\ mountPc' = S.mountPc               /\ pendMount' = S.pendMount
    /\ pendPlain' = S.pendPlain           /\ pendSwitch' = S.pendSwitch
    /\ destroyed' = S.destroyed           /\ hasAudioContext' = S.hasAudioContext

Init ==
    /\ stream = "none"           /\ audioElement = NoElem
    /\ orphans = EmptyBag        /\ audioContext = 0
    /\ ctxs = [c \in CtxIds |-> NoCtx]
    /\ analyser = [ctx |-> 0, src |-> "none"]
    /\ hasPermission = FALSE     /\ isStreaming = FALSE
    /\ errorMessage = ""         /\ micLevel = <<0, 1>>
    /\ availableMics = 0
    /\ audioEnabled = FALSE      /\ audioDelay = 0
    /\ rafScheduled = FALSE      /\ animationFrame = FALSE
    /\ mountPc = "enumerating"   /\ pendMount = FALSE
    /\ pendPlain = 0             /\ pendSwitch = 0
    /\ destroyed = FALSE         /\ hasAudioContext \in BOOLEAN

\* getUserMedia calls pending or, for onMount's, still to be issued.
Outstanding == pendPlain + pendSwitch + (IF mountPc = "done" THEN 0 ELSE 1)

\* A fault is drawn only where the faulting line is executed.
GraphFaultApplies(S, fault) ==
    \/ fault = 0
    \/ /\ fault \in {168, 175}
       /\ S.audioElement.made /\ S.stream # "none"
       /\ S.audioDelay > 0 /\ S.hasAudioContext
    \/ /\ fault = 161
       /\ S.audioElement.made /\ S.stream # "none"
       /\ S.audioDelay > 0 /\ S.hasAudioContext /\ S.audioContext = 0

AnalyserFaultApplies(S, fault) ==
    \/ fault = 0
    \/ fault = 209 /\ S.hasAudioContext /\ S.audioContext = 0

----------------------------------------------------------------------------
\* onMount: await getAudioDevices() has finished with n audio inputs (0 also when
\* enumerateDevices rejects); requestPermissions() runs to its await.
DevicesEnumerated(n) ==
    /\ mountPc = "enumerating"
    /\ Commit(IssueAcquisition(
           [Cur EXCEPT !.availableMics = n, !.mountPc = "acquiring"], "mount"))

\* onMount: getUserMedia fulfilled; then startAudioLevelVisualization().
MountGranted(fault, data) ==
    /\ pendMount
    /\ AnalyserFaultApplies(Cur, fault)
    /\ Commit(draw(AcquisitionGranted(
                       [Cur EXCEPT !.pendMount = FALSE, !.mountPc = "done"], fault),
                   data))

\* onMount: getUserMedia rejected; then startAudioLevelVisualization().
MountDenied(name, data) ==
    /\ pendMount
    /\ Commit(draw(AcquisitionFailed(
                       [Cur EXCEPT !.pendMount = FALSE, !.mountPc = "done"], name),
                   data))

\* A getUserMedia call of the enable button is fulfilled.
AcquireGranted(fault) ==
    /\ pendPlain > 0
    /\ AnalyserFaultApplies(Cur, fault)
    /\ Commit(AcquisitionGranted([Cur EXCEPT !.pendPlain = @ - 1], fault))

\* ... or rejected.
AcquireDenied(name) ==
    /\ pendPlain > 0
    /\ Commit(AcquisitionFailed([Cur EXCEPT !.pendPlain = @ - 1], name))

\* A getUserMedia call of switchMicrophone is fulfilled.
SwitchGranted(fault) ==
    /\ pendSwitch > 0
    /\ AnalyserFaultApplies(Cur, fault)
    /\ Commit(AcquisitionGranted([Cur EXCEPT !.pendSwitch = @ - 1], fault))

\* ... or rejected.
onSwitchDenied(name) == AcquisitionFailed([Cur EXCEPT !.pendSwitch = @ - 1], name)

SwitchDenied(name) ==
    /\ pendSwitch > 0
    /\ Commit(onSwitchDenied(name))

\* Button "Enable Camera & Microphone" ({#if !hasPermission}).
EnableClick ==
    /\ ~destroyed /\ ~hasPermission
    /\ Outstanding < MaxPending
    /\ Commit(IssueAcquisition(Cur, "button"))

\* Button "Start Mirror" ({:else if !isStreaming}).
StartClick ==
    /\ ~destroyed /\ hasPermission /\ ~isStreaming
    /\ Commit(startStream(Cur))

\* Button "Stop Mirror" ({:else}).
StopClick ==
    /\ ~destroyed /\ hasPermission /\ isStreaming
    /\ Commit(stopStream(Cur))

\* Microphone select ({#if availableMics.length > 0}), onchange: another of the
\* listed devices is chosen.
MicChange ==
    /\ ~destroyed
    /\ availableMics >= 2
    /\ stream # "none" => Outstanding < MaxPending
    /\ Commit(switchMicrophone(Cur))

\* Delay slider: bind:value, oninput, disabled={!hasPermission || audioEnabled}.
DelayInput(d, fault) ==
    /\ ~destroyed /\ availableMics > 0
    /\ hasPermission /\ ~audioEnabled
    /\ d \in Delays /\ d # audioDelay
    /\ GraphFaultApplies([Cur EXCEPT !.audioDelay = d], fault)
    /\ Commit(updateAudioDelay([Cur EXCEPT !.audioDelay = d], fault))

\* Audio mirror button: onclick={toggleAudio}, disabled={!hasPermission}.
ToggleClick(fault) ==
    /\ ~destroyed /\ availableMics > 0
    /\ hasPermission
    /\ audioEnabled => fault = 0
    /\ GraphFaultApplies(Cur, fault)
    /\ Commit(toggleAudio(Cur, fault))

\* The play() promises of an element are fulfilled:
\* .then(() => { audioEnabled = true }).
Fulfil(S, el) ==
    [S EXCEPT !.audioEnabled = IF "enable" \in el.pending THEN TRUE ELSE @]

\* A variant of the catch callback below that leaves audioEnabled as it is.
RejectIgnored(S, el) == S

\* ... or rejected: .catch(() => { audioEnabled = false }); the element stays paused.
Reject(S, el) ==
    [S EXCEPT !.audioEnabled = IF "enable" \in el.pending THEN FALSE ELSE @]

PlayFulfilled ==
    /\ audioElement.pending # {}
    /\ Commit(Fulfil([Cur EXCEPT !.audioElement.pending = {}], audioElement))

onPlayRejected ==
    Reject([Cur EXCEPT !.audioElement.pending = {}, !.audioElement.paused = TRUE],
           audioElement)

PlayRejected ==
    /\ audioElement.pending # {}
    /\ Commit(onPlayRejected)

\* The same for an element the script no longer refers to.
Replace(S, o, el) ==
    [S EXCEPT !.orphans = (@ (-) SetToBag({o})) (+) SetToBag({[o EXCEPT !.elem = el]})]

OrphanPlayFulfilled(o) ==
    /\ o \in BagToSet(orphans)
    /\ o.elem.pending # {}
    /\ Commit(Fulfil(Replace(Cur, o, [o.elem EXCEPT !.pending = {}]), o.elem))

onOrphanPlayRejected(o) ==
    Reject(Replace(Cur, o, [o.elem EXCEPT !.pending = {}, !.paused = TRUE]), o.elem)

OrphanPlayRejected(o) ==
    /\ o \in BagToSet(orphans)
    /\ o.elem.pending # {}
    /\ Commit(onOrphanPlayRejected(o))

\* The display refresh runs the scheduled draw.
Frame(data) ==
    /\ rafScheduled
    /\ Commit(draw([Cur EXCEPT !.rafScheduled = FALSE], data))

\* The page is left.
Destroy ==
    /\ ~destroyed
    /\ Commit(onDestroy(Cur))

\* One step of the page in a browser whose updateAudioDelay may throw at the
\* lines GF and whose setupAudioAnalyser may throw at the lines AF.
Step(GF, AF) ==
    \/ \E n \in {0, MaxMics} : DevicesEnumerated(n)
    \/ \E fault \in AF, data \in Frames : MountGranted(fault, data)
    \/ \E name \in ErrorNames, data \in Frames : MountDenied(name, data)
    \/ \E fault \in AF : AcquireGranted(fault)
    \/ \E name \in ErrorNames : AcquireDenied(name)
    \/ \E fault \in AF : SwitchGranted(fault)
    \/ \E name \in ErrorNames : SwitchDenied(name)
    \/ EnableClick
    \/ StartClick
    \/ StopClick
    \/ MicChange
    \/ \E d \in Delays, fault \in GF : DelayInput(d, fault)
    \/ \E fault \in GF : ToggleClick(fault)
    \/ PlayFulfilled
    \/ PlayRejected
    \/ \E o \in BagToSet(orphans) : OrphanPlayFulfilled(o)
    \/ \E o \in BagToSet(orphans) : OrphanPlayRejected(o)
    \/ \E data \in Frames : Frame(data)
    \/ Destroy

Next == Step(GraphFaults, AnalyserFaults)

Spec == Init /\ [][Next]_vars

\* The same page in a browser in which no Web Audio call ever throws.
NextReliable == Step({0}, {0})

SpecReliable == Init /\ [][NextReliable]_vars

----------------------------------------------------------------------------
\* What can be observed of a state.
RunningContexts == {c \in CtxIds : ctxs[c].state = "running"}

\* An element is heard when it plays (not paused, no play() pending) a stream
\* whose tracks are live, directly or through a graph in a running context.
Audible(el, live) ==
    /\ el.made /\ ~el.paused /\ el.pending = {}
    /\ live
    /\ \/ el.src = RawSrc
       \/ el.src[1] = "dest" /\ ctxs[el.src[2]].state = "running"

AudibleOrphans ==
    BagCardinality([o \in {x \in BagToSet(orphans) : Audible(x.elem, x.live)}
                       |-> orphans[o]])

ActivePlaybacks ==
    (IF Audible(audioElement, stream = "live") THEN 1 ELSE 0) + AudibleOrphans

PendingPlays ==
    (IF audioElement.pending # {} THEN 1 ELSE 0)
    + BagCardinality([o \in {x \in BagToSet(orphans) : x.elem.pending # {}}
                         |-> orphans[o]])

PendingAcquisitions == pendPlain + pendSwitch + (IF pendMount THEN 1 ELSE 0)

\* C1: in every reachable state at most one Audio element is playing, also when
\* requestPermissions is invoked again while an earlier acquisition is pending.
\* The code does not keep this: each granted acquisition makes a new element
\* and leaves the previous one playing.
C1_AtMostOnePlayback == ActivePlaybacks <= 1

\* The number of running contexts after the first k calls of a handler's log.
LiveAfter(log, k) ==
    Cardinality(RunningContexts)
    + Cardinality({i \in 1..k : log[i][1] = "ctx.new"})
    - Cardinality({i \in 1..k : log[i][1] = "ctx.close"})

OneLiveAlong(log) == \A k \in 0..Len(log) : LiveAfter(log, k) <= 1

\* C2: in every reachable state at most one AudioContext is created and not
\* closed, and during every call of updateAudioDelay with audioDelay > 0, whatever
\* line of it throws, the context referred to is closed before the next one is
\* created.
C2_OneLiveContext ==
    /\ Cardinality(RunningContexts) <= 1
    /\ \A d \in Delays \ {0}, fault \in GraphFaults :
           OneLiveAlong(updateAudioDelay([Cur EXCEPT !.audioDelay = d], fault).log)

\* C2 happens: updateAudioDelay has closed the context the analyser was made in
\* and built the delay graph in a new one.
C2_Rebuilt ==
    /\ audioContext # 0 /\ analyser.ctx # 0 /\ analyser.ctx # audioContext
    /\ ctxs[analyser.ctx].state = "closed"
    /\ ctxs[audioContext].state = "running"
    /\ ctxs[audioContext].conns = GraphConnections

\* C3: transitions are serialized: while a getUserMedia or a play() promise of
\* one transition is pending, no other is pending.  The code has no such guard.
C3_Serialized == PendingAcquisitions + PendingPlays <= 1

\* Everything the page acquired is released.
Released ==
    /\ stream # "live"
    /\ \A o \in BagToSet(orphans) : ~o.live
    /\ RunningContexts = {}
    /\ ActivePlaybacks = 0 /\ PendingPlays = 0
    /\ ~rafScheduled

\* C4: once onDestroy has run and everything is released, everything stays
\* released.  The code does not keep this: a getUserMedia call that was pending
\* when onDestroy ran is still followed by the rest of requestPermissions.
C4_StaysReleased == [][(destroyed /\ Released) => Released']_vars

Position(log, op) == {i \in 1..Len(log) : log[i][1] = op}

CleanupCalls == {"video.stop", "audio.pause", "audio.reset", "audio.src",
                 "tracks.stop", "ctx.close", "ctx.reclose"}

AbortDisables(S) ==
    "enable" \in S.aborted => ~AfterCatches(S).audioEnabled /\ ~AfterCatches(S).thrown

\* C6: whenever a play() issued by setupAudioPlayback or by the enable branch of
\* toggleAudio is rejected, of the current element or of an earlier one, by the
\* browser or by a pause() of the script, audioEnabled is false once the catch
\* callback has run, and nothing is thrown.
C6_RejectedStartDisables ==
    /\ "enable" \in audioElement.pending =>
           ~onPlayRejected.audioEnabled /\ ~onPlayRejected.thrown
    /\ \A o \in BagToSet(orphans) :
           "enable" \in o.elem.pending =>
               ~onOrphanPlayRejected(o).audioEnabled /\ ~onOrphanPlayRejected(o).thrown
    /\ AbortDisables(stopStream(Cur))
    /\ \A fault \in GraphFaults :
           /\ AbortDisables(toggleAudio(Cur, fault))
           /\ \A d \in Delays :
                  AbortDisables(updateAudioDelay([Cur EXCEPT !.audioDelay = d], fault))

\* C6 happens: a start of playback is pending while audioEnabled is true (an
\* earlier element's play() was fulfilled).
C6_StartPendingWhileEnabled ==
    /\ audioEnabled
    /\ \/ "enable" \in audioElement.pending
       \/ \E o \in BagToSet(orphans) : "enable" \in o.elem.pending

\* C7: while the stream is live, the analyser attached to it is in a context
\* that is not closed.  The code does not keep this: updateAudioDelay closes
\* audioContext, which is the analyser's context.
C7_AnalyserAlive ==
    (stream = "live" /\ analyser.src = "cur") =>
        ctxs[analyser.ctx].state = "running"

\* C8: while monitoring is enabled the delay can be changed from 0 to 300.  The
\* code does not allow it: the slider is disabled while audioEnabled.
C8_DelayChangeWhileEnabled ==
    (~destroyed /\ hasPermission /\ availableMics > 0 /\ audioElement.made
     /\ audioEnabled /\ audioDelay = 0)
        => ENABLED DelayInput(300, 0)

\* C9: whenever audioEnabled is true and audioDelay > 0 (AudioContext being
\* available), the element plays the output of a delay graph whose delay is
\* audioDelay / 1000 seconds.  The code does not keep this: setupAudioPlayback
\* attaches the raw stream whatever audioDelay is.
C9_EnabledAtCurrentDelay ==
    (hasAudioContext /\ audioEnabled /\ audioDelay > 0 /\ audioElement.src # NullSrc)
        => /\ audioElement.src[1] = "dest"
           /\ ctxs[audioElement.src[2]].delayTime = <<audioDelay, MsPerSecond>>

\* C10: after monitoring is disabled with the audio mirror button, no context
\* holding a delay graph is running.  The code does not close it.
C10_DisableReleasesGraph ==
    [][(audioEnabled /\ ToggleClick(0))
           => \A c \in CtxIds : ~(ctxs'[c].state = "running" /\ ctxs'[c].conns # {})]_vars

\* Nothing of the page's own is half initialised: monitoring is off, no context
\* runs, the element audioElement refers to is not heard, and the stream the
\* variable refers to has no live track.
NothingHeld ==
    /\ ~audioEnabled
    /\ RunningContexts = {}
    /\ ~Audible(audioElement, stream = "live")
    /\ stream # "live"

\* C11: when the getUserMedia call of a device switch is rejected, the page shows
\* an error message and holds nothing half initialised.  The code does not keep
\* this: the catch of requestPermissions releases nothing, so what an
\* overlapping switch has acquired in the meantime stays.
C11_FailedSwitchHoldsNothing ==
    [][(\E name \in ErrorNames : SwitchDenied(name))
           => (errorMessage' # "" /\ NothingHeld')]_vars

\* The state a handler has produced, without the record of its calls.
StateOf(S) == [S EXCEPT !.log = <<>>]

\* C12: stopStream applied to the state stopStream has left changes nothing of
\* it (audioEnabled, isStreaming, micLevel, the element, audioContext, the
\* contexts, the tracks), throws nothing and closes no context again.
C12_StopIdempotent ==
    LET once == StateOf(stopStream(Cur))
        twice == stopStream(once)
    IN /\ StateOf(twice) = once
       /\ ~twice.thrown
       /\ \A i \in 1..Len(twice.log) : twice.log[i][1] \notin {"ctx.close", "ctx.reclose"}

\* C12 happens: stopStream has run on an acquired stream with an audio context,
\* and the page is still there for stopStream to run again (onDestroy).
C12_Stopped ==
    /\ ~destroyed
    /\ stream = "stopped" /\ audioElement.made /\ audioElement.src = NullSrc
    /\ audioContext = 0 /\ ctxs[1].state = "closed"
    /\ StateOf(stopStream(Cur)) = StateOf(Cur)

\* Slider values the build is tried with: both ends, the least step and the
\* value the behaviours use.
BuildDelays == {0, 10, 300, 1000}

\* C13: whatever audioContext refers to (nothing, the analyser's context, an
\* earlier graph's, a closed one), for every delay and wherever the build
\* throws, updateAudioDelay followed at once by stopStream leaves no context
\* running.
C13_BuildThenReleaseLeavesNone ==
    \A d \in BuildDelays, fault \in GraphFaults :
        LET built == updateAudioDelay([Cur EXCEPT !.audioDelay = d], fault)
            released == stopStream(built)
        IN /\ \A c \in CtxIds : released.ctxs[c].state # "running"
           /\ released.audioContext = 0

\* C13 happens: a delay graph was built out of the analyser's context and then
\* released by stopStream.
C13_BuiltAndReleased ==
    /\ audioDelay > 0 /\ stream = "stopped" /\ audioElement.src = NullSrc
    /\ audioContext = 0 /\ RunningContexts = {}
    /\ analyser.ctx # 0 /\ ctxs[analyser.ctx].state = "closed"

\* The contexts that hold a connected delay graph and run.
LiveGraphs(cs) == {c \in CtxIds : cs[c].state = "running" /\ cs[c].conns # {}}

\* C14: after the slider has set audioDelay to 0, the element's source is the
\* raw stream and no delay graph is left running.  The code does not keep the
\* second part: the else branch of updateAudioDelay closes nothing.
C14_ZeroDelayLeavesNoGraph ==
    [][DelayInput(0, 0) => (audioElement'.src = RawSrc /\ LiveGraphs(ctxs') = {})]_vars

\* updateAudioDelay has degraded to the raw stream without telling anyone.
DegradedQuietly(S) ==
    /\ S.audioElement.src = RawSrc
    /\ ~S.thrown
    /\ S.errorMessage = errorMessage

\* C15: with an element and a stream present and audioDelay > 0, when
\* AudioContext is undefined or a line of the try block throws, updateAudioDelay
\* leaves the raw stream as the element's source, throws nothing and leaves
\* errorMessage as it was.
C15_DegradesToRawStream ==
    (audioElement.made /\ stream # "none") =>
        \A d \in BuildDelays \ {0} :
            LET S0 == [Cur EXCEPT !.audioDelay = d]
            IN /\ ~hasAudioContext => DegradedQuietly(updateAudioDelay(S0, 0))
               /\ \A fault \in GraphFaults \ {0} :
                      GraphFaultApplies(S0, fault)
                          => DegradedQuietly(updateAudioDelay(S0, fault))

\* C15 happens: createMediaStreamSource threw after the delay was set in a new
\* context; the element plays the raw stream.
C15_FellBack ==
    /\ audioDelay > 0 /\ audioElement.made /\ audioElement.src = RawSrc
    /\ audioContext # 0
    /\ ctxs[audioContext].state = "running"
    /\ ctxs[audioContext].delayTime = <<audioDelay, MsPerSecond>>
    /\ ctxs[audioContext].conns = {}

\* C16: while the variable analyser is undefined (nothing acquired yet, the
\* permission denied, or AudioContext undefined), micLevel is 0, and a run of
\* draw throws nothing, produces no non-zero frequency bin and leaves micLevel 0.
C16_UnattachedYieldsZero ==
    analyser.ctx = 0 =>
        /\ micLevel = <<0, 1>>
        /\ \A data \in Frames :
               LET S == draw(Cur, data)
               IN /\ ~S.thrown
                  /\ S.micLevel = <<0, 1>>
                  /\ \A i \in 1..Len(S.frame) : S.frame[i] = 0

\* C16 happens: onMount has called startAudioLevelVisualization and draw has run
\* without an analyser.
C16_DrawnUnattached ==
    /\ mountPc = "done" /\ ~destroyed
    /\ analyser.ctx = 0 /\ micLevel = <<0, 1>>

\* C17: once onMount has finished and until onDestroy, whenever an analyser is
\* attached to a live stream in a running context, a draw is scheduled for the
\* next display refresh.  The code does not keep this: draw, called once by
\* onMount, schedules nothing when there is no analyser yet, and nothing calls
\* startAudioLevelVisualization again.
C17_LoopRunsWhileAttached ==
    (mountPc = "done" /\ ~destroyed /\ AnalyserLive(Cur)) => rafScheduled

\* The streams with live tracks: the one stream refers to and the overwritten ones.
LiveSources ==
    (IF stream = "live" THEN 1 ELSE 0)
    + BagCardinality([o \in {x \in BagToSet(orphans) : x.live} |-> orphans[o]])

\* C18: at most one stream has live tracks, and no stream that was overwritten
\* in the variable stream has live tracks.  The code does not keep this:
\* requestPermissions assigns the new stream without stopping the one the
\* variable referred to.
C18_OneLiveSource ==
    /\ LiveSources <= 1
    /\ \A o \in BagToSet(orphans) : ~o.live

Before(log, ops1, ops2) ==
    \A i, j \in 1..Len(log) :
        (log[i][1] \in ops1 /\ log[j][1] \in ops2) => i < j

\* C19: onDestroy stops playback, then closes the audio context, then stops the
\* tracks of the stream, then halts the display-refresh loop: no call of a
\* later step precedes a call of an earlier one.  The code does not keep this:
\* stopStream stops the tracks before it closes the context.
C19_TeardownOrder ==
    ~destroyed =>
        LET L == onDestroy(Cur).log
        IN /\ Before(L, {"audio.pause", "audio.reset", "audio.src"},
                        {"ctx.close", "ctx.reclose"})
           /\ Before(L, {"ctx.close", "ctx.reclose"}, {"tracks.stop"})
           /\ Before(L, {"tracks.stop"}, {"cancelAnimationFrame"})

\* An element that is not playing and has no start of playback pending.
AtRest(el) == ~el.made \/ (el.paused /\ el.pending = {})

\* The handler whose calls are log found the element el: unless el was at rest,
\* every creation of an element and every assignment of a source in log comes
\* after a pause() and a reset of the position.  (Assigning the new source is
\* taken to detach the old one.)
StopsFirst(el, log) ==
    \/ AtRest(el)
    \/ \A k \in Position(log, "audio.new") \cup Position(log, "audio.src") :
           /\ \E p \in Position(log, "audio.pause") : p < k
           /\ \E r \in Position(log, "audio.reset") : r < k

\* C20: each path that attaches a stream to an audio element, updateAudioDelay
\* and requestPermissions with its setupAudioPlayback, first stops the playback
\* that exists.  The code does not keep this for setupAudioPlayback, which makes
\* a new element and leaves the existing one as it is.
C20_StartStopsExisting ==
    /\ \A d \in Delays :
           StopsFirst(audioElement, updateAudioDelay([Cur EXCEPT !.audioDelay = d], 0).log)
    /\ PendingAcquisitions > 0 =>
           StopsFirst(audioElement, AcquisitionGranted(Cur, 0).log)

\* The ratio r is ms milliseconds in seconds.
IsSeconds(r, ms) == r[1] * 1000 = ms * r[2]

\* C21: with an element and a stream present and AudioContext available, for
\* every delay > 0 the graph updateAudioDelay builds (nothing throwing) runs in
\* the context audioContext refers to, has exactly the connections source to
\* delay, delay to destination and source to destination, a delay time of
\* audioDelay / 1000 seconds, the current stream as its source, and its
\* destination's stream is the element's source.
C21_GraphShape ==
    (audioElement.made /\ stream # "none" /\ hasAudioContext) =>
        \A d \in BuildDelays \ {0} :
            LET S == updateAudioDelay([Cur EXCEPT !.audioDelay = d], 0)
                c == S.audioContext
            IN /\ c # 0
               /\ S.ctxs[c].state = "running"
               /\ S.ctxs[c].conns = {<<"source", "delay">>, <<"delay", "destination">>,
                                     <<"source", "destination">>}
               /\ IsSeconds(S.ctxs[c].delayTime, d)
               /\ S.ctxs[c].source = "cur"
               /\ S.audioElement.src = DestSrc(c)

\* C21 happens: the element plays the destination of a graph built for the
\* delay the slider shows.
C21_GraphBuilt ==
    /\ audioDelay > 0 /\ audioContext # 0
    /\ audioElement.src = DestSrc(audioContext)
    /\ ctxs[audioContext].state = "running"
    /\ ctxs[audioContext].conns # {}
    /\ IsSeconds(ctxs[audioContext].delayTime, audioDelay)

\* The message shown for each kind of rejection.
DefaultMessage == "Error accessing camera or microphone. Please check your device permissions."

MessageFor ==
    [name \in ErrorNames |->
        CASE name = "NotAllowedError" ->
                 "Camera and microphone access was denied. Please allow access in your browser settings."
          [] name = "NotFoundError" ->
                 "No camera or microphone found. Please connect a device and try again."
          [] name = "NotReadableError" ->
                 "Camera or microphone is already in use by another application."
          [] OTHER -> DefaultMessage]

AcquisitionPending == pendMount \/ pendPlain > 0 \/ pendSwitch > 0

Reported(S, message) ==
    ~S.thrown /\ ~S.hasPermission /\ S.errorMessage = message /\ message # ""

ClosesTwice(log) == \E i \in 1..Len(log) : log[i][1] = "ctx.reclose"

\* C23: audioContext is undefined or refers to a context that is not closed,
\* and neither stopStream (Stop Mirror, a microphone change, teardown) nor
\* updateAudioDelay, run from here, calls close() on a closed context.
C23_NoDoubleRelease ==
    /\ audioContext # 0 => ctxs[audioContext].state # "closed"
    /\ ~ClosesTwice(stopStream(Cur).log)
    /\ \A d \in Delays, fault \in GraphFaults :
           GraphFaultApplies([Cur EXCEPT !.audioDelay = d], fault) =>
               ~ClosesTwice(updateAudioDelay([Cur EXCEPT !.audioDelay = d], fault).log)

\* The tracks of the current stream are stopped.
StreamStopped == stream \notin {"none", "live"}

\* C24: while the tracks of the current stream are stopped, audioEnabled is
\* false, audioContext refers to no context, and the audio element is paused
\* with no play() pending.
C24_OffWhileStopped ==
    StreamStopped =>
        /\ ~audioEnabled
        /\ audioContext = 0
        /\ audioElement.paused /\ audioElement.pending = {}

\* C25: whenever isStreaming is true, the tracks of the current stream are live.
C25_StreamingMeansLive == isStreaming => stream = "live"

====
